---- MODULE Spec2Model ----
(***************************************************************************)
(* Model of otk-please (main.go): an HTTP handler that verifies a Slack    *)
(* slash-command webhook, picks the demo or staging environment from the   *)
(* command text, claims a one-time key from that environment and answers   *)
(* with it.  One behaviour of the model is the handling of one request.    *)
(*                                                                         *)
(* Strings are sequences of one-character strings.  The request body is a  *)
(* sequence of form segments (key, value, well-formedness); the body of    *)
(* an http.Request is a stream: the data and a read offset.                *)
(***************************************************************************)
EXTENDS Integers, Sequences, FiniteSets, TLC

\* ---------------------------------------------------------------- bounds
\* A command text is the concatenation of at most MaxFrags fragments.
MaxFrags == 2
\* An upstream response body has at most MaxBodyLen characters.
MaxBodyLen == 2

\* ------------------------------------------------------------- constants
StatusOK == 200
StatusUnauthorized == 401
StatusInternalServerError == 500
\* status of a ResponseWriter on which nothing was written yet
NoStatus == 0

demoAddress == "https://submission.covid-alert-demo.cdssandbox.xyz/new-key-claim"
stagingAddress == "https://submission.wild-samphire.cdssandbox.xyz/new-key-claim"

\* os.Getenv of the three secrets
SLACK_SIGNING_SECRET == "signing-secret"
DEMO == "demo-bearer"
STAGING == "staging-bearer"

NL == "\n"

\* ---------------------------------------------------------------- strings
Upper == <<"A","B","C","D","E","F","G","H","I","J","K","L","M",
           "N","O","P","Q","R","S","T","U","V","W","X","Y","Z">>
Lower == <<"a","b","c","d","e","f","g","h","i","j","k","l","m",
           "n","o","p","q","r","s","t","u","v","w","x","y","z">>

\* case folding of one character, as the (?i) flag of the two patterns does
Fold(c) ==
  IF \E i \in 1..26 : Upper[i] = c
    THEN Lower[CHOOSE i \in 1..26 : Upper[i] = c]
    ELSE c

FoldAll(s) == [i \in 1..Len(s) |-> Fold(s[i])]

\* regexp.MustCompile("(?i)" + pat).MatchString(text): pat is a literal
\* lower-case word, so the match is a case-insensitive substring search
MatchStringCI(pat, text) ==
  \E i \in 1..(Len(text) - Len(pat) + 1) :
    FoldAll(SubSeq(text, i, i + Len(pat) - 1)) = pat

demo == <<"d","e","m","o">>
staging == <<"s","t","a","g","i","n","g">>

\* strings.HasSuffix / strings.TrimSuffix
HasSuffix(s, suffix) ==
  /\ Len(s) >= Len(suffix)
  /\ SubSeq(s, Len(s) - Len(suffix) + 1, Len(s)) = suffix

\* variant of TrimSuffix: strips every trailing occurrence (strings.TrimRight)
RECURSIVE TrimSuffixAll(_, _)
TrimSuffixAll(s, suffix) ==
  IF suffix # <<>> /\ HasSuffix(s, suffix)
    THEN TrimSuffixAll(SubSeq(s, 1, Len(s) - Len(suffix)), suffix)
    ELSE s

TrimSuffix(s, suffix) ==
  IF HasSuffix(s, suffix) THEN SubSeq(s, 1, Len(s) - Len(suffix)) ELSE s

\* the literal written when no environment matches
guidanceMessage ==
  <<"P","l","e","a","s","e"," ","e","n","t","e","r"," ",
    "e","i","t","h","e","r"," ","*","d","e","m","o","*"," ",
    "o","r"," ","*","s","t","a","g","i","n","g","*">>

\* fmt.Sprintf("%v token: %v", environment, token)
SprintfToken(environment, token) ==
  environment \o <<" ","t","o","k","e","n",":"," ">> \o token

\* ------------------------------------------------------------ input sets
Frags ==
  { demo,
    <<"D","e","M","o">>,
    staging,
    <<"S","T","A","G","I","N","G">>,
    <<"d","e">>,
    <<"m","o">>,
    <<" ","p","l","e","a","s","e">> }

RECURSIVE TextsOf(_)
TextsOf(n) ==
  IF n = 0 THEN { <<>> }
  ELSE LET shorter == TextsOf(n - 1)
       IN  shorter \cup { t \o f : t \in shorter, f \in Frags }

Texts == TextsOf(MaxFrags)

RECURSIVE BodiesOf(_)
BodiesOf(n) ==
  IF n = 0 THEN { <<>> }
  ELSE LET shorter == BodiesOf(n - 1)
       IN  shorter \cup { Append(b, c) : b \in shorter, c \in {"a", NL} }

UpstreamBodies == BodiesOf(MaxBodyLen)

\* one key=value pair of the form-encoded payload; ok = FALSE stands for a
\* pair url.ParseQuery rejects (an invalid % escape)
Segment(k, v, ok) == [key |-> k, val |-> v, ok |-> ok]
commandSeg == Segment("command", <<"/","o","t","k">>, TRUE)
badSeg == Segment("text", <<"%","z","z">>, FALSE)

Payloads ==
  { <<>>, <<commandSeg>>, <<badSeg>>, <<commandSeg, badSeg>> }
    \cup { <<commandSeg, Segment("text", t, TRUE)>> : t \in Texts }
    \cup { <<Segment("text", t, TRUE), Segment("text", demo, TRUE)>> :
             t \in { <<>>, staging } }

\* HMAC-SHA256 of "v0:<timestamp>:<body>" under a key, as an ideal MAC
HMAC(key, ts, data) == <<key, ts, data>>

Timestamps == { "fresh", "stale", "" }

\* the X-Slack-Signature header values tried for a body: absent, the right
\* one, one made with another key, one made over another body
SignaturesFor(ts, data) ==
  { <<>>,
    HMAC(SLACK_SIGNING_SECRET, ts, data),
    HMAC("other-secret", ts, data),
    HMAC(SLACK_SIGNING_SECRET, ts, <<commandSeg>>) }

Statuses == { 200, 500 }

\* what the token API does with the one POST: the connection fails, or a
\* response arrives whose body read may fail
UpstreamResults ==
  { [connErr |-> TRUE, status |-> 0, body |-> <<>>, readErr |-> FALSE] }
    \cup { [connErr |-> FALSE, status |-> s, body |-> b, readErr |-> r] :
             s \in Statuses, b \in UpstreamBodies, r \in BOOLEAN }

NoUpstream == [connErr |-> FALSE, status |-> 0, body |-> <<>>, readErr |-> FALSE]

\* ------------------------------------------------------------- the state
VARIABLES
  pc,           \* position in handler
  reqHeader,    \* [ts, sig]: X-Slack-Request-Timestamp, X-Slack-Signature
  reqData,      \* the bytes the request arrived with
  reqBody,      \* req.Body: [data, off]
  hashed,       \* the bytes written to the secrets verifier
  parsed,       \* SlashCommandParse was called
  parsedFrom,   \* the bytes SlashCommandParse read from req.Body
  text,         \* s.Text
  bearerToken, address, environment,
  calls,        \* the outbound requests made, in order
  upstream,     \* what the token API answered
  token, err,   \* the results of getToken
  w,            \* the ResponseWriter: [status, body]
  trace         \* the stages entered, in order

vars == << pc, reqHeader, reqData, reqBody, hashed, parsed, parsedFrom, text,
           bearerToken, address, environment, calls, upstream, token, err,
           w, trace >>

\* ------------------------------------------------------------ body stream
NewBuffer(data) == [data |-> data, off |-> 0]

\* what a reader of the stream still gets
Remaining(body) == SubSeq(body.data, body.off + 1, Len(body.data))

\* ioutil.ReadAll(body): the remaining bytes, and the stream at its end
ReadAll(body) ==
  [bytes |-> Remaining(body),
   body  |-> [data |-> body.data, off |-> Len(body.data)]]

\* --------------------------------------------------------- ResponseWriter
NewResponse == [status |-> NoStatus, body |-> <<>>]

WriteHeader(rw, code) ==
  IF rw.status = NoStatus THEN [rw EXCEPT !.status = code] ELSE rw

\* Write sends the implicit 200 header first when none was written
Write(rw, bytes) ==
  LET h == WriteHeader(rw, StatusOK)
  IN  [h EXCEPT !.body = h.body \o bytes]

\* ---------------------------------------------------------- verifyRequest
\* slack.NewSecretsVerifier: both headers present, timestamp not too old
NewSecretsVerifierFails(header) ==
  \/ header.sig = <<>>
  \/ header.ts = ""
  \/ header.ts = "stale"

\* secretVerifier.Ensure(): the MAC over what was written equals the header
EnsureFails(header, written) ==
  header.sig # HMAC(SLACK_SIGNING_SECRET, header.ts, written)

\* variant of verifyRequest: the result of Ensure() is dropped
verifyRequestNoEnsure(header, body) ==
  IF NewSecretsVerifierFails(header)
    THEN [err |-> TRUE, body |-> body, hashed |-> <<>>]
    ELSE LET r == ReadAll(body)
         IN  [err    |-> FALSE,
              body   |-> NewBuffer(r.bytes),
              hashed |-> r.bytes]

\* variant of verifyRequest: req.Body is not reset after ReadAll
verifyRequestNoReset(header, body) ==
  IF NewSecretsVerifierFails(header)
    THEN [err |-> TRUE, body |-> body, hashed |-> <<>>]
    ELSE LET r == ReadAll(body)
         IN  [err    |-> EnsureFails(header, r.bytes),
              body   |-> r.body,
              hashed |-> r.bytes]

\* verifyRequest(req): [err, body, hashed]; body is req.Body afterwards
verifyRequest(header, body) ==
  IF NewSecretsVerifierFails(header)
    THEN [err |-> TRUE, body |-> body, hashed |-> <<>>]
    ELSE LET r == ReadAll(body)
         IN  [err    |-> EnsureFails(header, r.bytes),
              body   |-> NewBuffer(r.bytes),
              hashed |-> r.bytes]

\* ------------------------------------------------------ SlashCommandParse
\* r.ParseForm() reads the body to its end and fails on a malformed pair;
\* s.Text = r.PostForm.Get("text"): the first value of the key, "" if none
PostFormGet(data, key) ==
  LET idx == { i \in 1..Len(data) : data[i].ok /\ data[i].key = key }
  IN  IF idx = {} THEN <<>>
      ELSE data[CHOOSE i \in idx : \A j \in idx : i <= j].val

SlashCommandParse(body) ==
  LET r == ReadAll(body)
  IN  [err  |-> \E i \in 1..Len(r.bytes) : ~r.bytes[i].ok,
       Text |-> PostFormGet(r.bytes, "text"),
       read |-> r.bytes,
       body |-> r.body]

\* ------------------------------------------------------------- classify
NoTarget == [matched |-> FALSE, bearerToken |-> "", address |-> "", environment |-> <<>>]

\* variant of ResolveEnvironment: the staging pattern is tried first
ResolveEnvironmentStagingFirst(t) ==
  IF MatchStringCI(staging, t)
    THEN [matched |-> TRUE, bearerToken |-> STAGING, address |-> stagingAddress,
          environment |-> <<"S","t","a","g","i","n","g">>]
  ELSE IF MatchStringCI(demo, t)
    THEN [matched |-> TRUE, bearerToken |-> DEMO, address |-> demoAddress,
          environment |-> <<"D","e","m","o">>]
  ELSE NoTarget

\* variant of ResolveEnvironment: the staging branch reads the DEMO secret
ResolveEnvironmentCopiedSecret(t) ==
  IF MatchStringCI(demo, t)
    THEN [matched |-> TRUE, bearerToken |-> DEMO, address |-> demoAddress,
          environment |-> <<"D","e","m","o">>]
  ELSE IF MatchStringCI(staging, t)
    THEN [matched |-> TRUE, bearerToken |-> DEMO, address |-> stagingAddress,
          environment |-> <<"S","t","a","g","i","n","g">>]
  ELSE NoTarget

\* variant of ResolveEnvironment: no final else, staging is the default
ResolveEnvironmentNoElse(t) ==
  IF MatchStringCI(demo, t)
    THEN [matched |-> TRUE, bearerToken |-> DEMO, address |-> demoAddress,
          environment |-> <<"D","e","m","o">>]
  ELSE [matched |-> TRUE, bearerToken |-> STAGING, address |-> stagingAddress,
        environment |-> <<"S","t","a","g","i","n","g">>]

\* the if / else if / else over the two patterns
ResolveEnvironment(t) ==
  IF MatchStringCI(demo, t)
    THEN [matched |-> TRUE, bearerToken |-> DEMO, address |-> demoAddress,
          environment |-> <<"D","e","m","o">>]
  ELSE IF MatchStringCI(staging, t)
    THEN [matched |-> TRUE, bearerToken |-> STAGING, address |-> stagingAddress,
          environment |-> <<"S","t","a","g","i","n","g">>]
  ELSE NoTarget

\* --------------------------------------------------------------- getToken
\* the request getToken sends
TokenRequest(bearer, addr) ==
  [method |-> "POST", address |-> addr, authorization |-> <<"Bearer ", bearer>>]

\* variant of getToken: the body is returned untrimmed
getTokenNoTrim(up) ==
  IF up.connErr THEN [token |-> <<>>, err |-> TRUE]
  ELSE IF up.readErr THEN [token |-> <<>>, err |-> TRUE]
  ELSE [token |-> up.body, err |-> FALSE]

\* getToken's results for an upstream answer: client.Do fails on a
\* connection failure only, whatever the status; ReadAll may fail
getToken(up) ==
  IF up.connErr THEN [token |-> <<>>, err |-> TRUE]
  ELSE IF up.readErr THEN [token |-> <<>>, err |-> TRUE]
  ELSE [token |-> TrimSuffix(up.body, <<NL>>), err |-> FALSE]

\* ------------------------------------------------------------------ Init
Init ==
  /\ pc = "verify"
  /\ reqData \in Payloads
  /\ \E ts \in Timestamps :
       \E sig \in SignaturesFor(ts, reqData) :
         reqHeader = [ts |-> ts, sig |-> sig]
  /\ reqBody = NewBuffer(reqData)
  /\ hashed = <<>>
  /\ parsed = FALSE
  /\ parsedFrom = <<>>
  /\ text = <<>>
  /\ bearerToken = ""
  /\ address = ""
  /\ environment = <<>>
  /\ calls = <<>>
  /\ upstream = NoUpstream
  /\ token = <<>>
  /\ err = FALSE
  /\ w = NewResponse
  /\ trace = <<>>

\* --------------------------------------------------------------- handler
\* if verifyRequest(req) != nil { w.WriteHeader(401); return }
HandlerVerify ==
  /\ pc = "verify"
  /\ LET v == verifyRequest(reqHeader, reqBody)
     IN  /\ reqBody' = v.body
         /\ hashed' = v.hashed
         /\ IF v.err
              THEN /\ w' = WriteHeader(w, StatusUnauthorized)
                   /\ pc' = "done"
              ELSE /\ w' = w
                   /\ pc' = "parse"
  /\ trace' = Append(trace, "verify")
  /\ UNCHANGED << reqHeader, reqData, parsed, parsedFrom, text, bearerToken,
                  address, environment, calls, upstream, token, err >>

\* variant of HandlerParse: the error of SlashCommandParse is ignored
HandlerParseIgnoreErr ==
  /\ pc = "parse"
  /\ LET s == SlashCommandParse(reqBody)
     IN  /\ reqBody' = s.body
         /\ parsed' = TRUE
         /\ parsedFrom' = s.read
         /\ w' = w
         /\ text' = s.Text
         /\ pc' = "classify"
  /\ trace' = Append(trace, "parse")
  /\ UNCHANGED << reqHeader, reqData, hashed, bearerToken, address,
                  environment, calls, upstream, token, err >>

\* s, err := slack.SlashCommandParse(req); if err != nil { 500; return }
HandlerParse ==
  /\ pc = "parse"
  /\ LET s == SlashCommandParse(reqBody)
     IN  /\ reqBody' = s.body
         /\ parsed' = TRUE
         /\ parsedFrom' = s.read
         /\ IF s.err
              THEN /\ w' = WriteHeader(w, StatusInternalServerError)
                   /\ text' = text
                   /\ pc' = "done"
              ELSE /\ w' = w
                   /\ text' = s.Text
                   /\ pc' = "classify"
  /\ trace' = Append(trace, "parse")
  /\ UNCHANGED << reqHeader, reqData, hashed, bearerToken, address,
                  environment, calls, upstream, token, err >>

\* the demo / staging / else branches
HandlerClassify ==
  /\ pc = "classify"
  /\ LET e == ResolveEnvironment(text)
     IN  IF e.matched
           THEN /\ bearerToken' = e.bearerToken
                /\ address' = e.address
                /\ environment' = e.environment
                /\ w' = w
                /\ pc' = "fetch"
           ELSE /\ w' = Write(w, guidanceMessage)
                /\ pc' = "done"
                /\ UNCHANGED << bearerToken, address, environment >>
  /\ trace' = Append(trace, "classify")
  /\ UNCHANGED << reqHeader, reqData, reqBody, hashed, parsed, parsedFrom,
                  text, calls, upstream, token, err >>

\* token, err := getToken(bearerToken, address)
HandlerGetToken ==
  /\ pc = "fetch"
  /\ \E up \in UpstreamResults :
       LET g == getToken(up)
       IN  /\ upstream' = up
           /\ token' = g.token
           /\ err' = g.err
  /\ calls' = Append(calls, TokenRequest(bearerToken, address))
  /\ pc' = "format"
  /\ trace' = Append(trace, "fetch")
  /\ UNCHANGED << reqHeader, reqData, reqBody, hashed, parsed, parsedFrom,
                  text, bearerToken, address, environment, w >>

\* if err != nil { 500; return }; w.Write("<environment> token: <token>")
HandlerFormat ==
  /\ pc = "format"
  /\ w' = IF err
            THEN WriteHeader(w, StatusInternalServerError)
            ELSE Write(w, SprintfToken(environment, token))
  /\ pc' = "done"
  /\ trace' = Append(trace, "format")
  /\ UNCHANGED << reqHeader, reqData, reqBody, hashed, parsed, parsedFrom,
                  text, bearerToken, address, environment, calls, upstream,
                  token, err >>

Next ==
  \/ HandlerVerify
  \/ HandlerParse
  \/ HandlerClassify
  \/ HandlerGetToken
  \/ HandlerFormat

Spec == Init /\ [][Next]_vars

TypeOK ==
  /\ pc \in { "verify", "parse", "classify", "fetch", "format", "done" }
  /\ w.status \in { NoStatus, StatusOK, StatusUnauthorized, StatusInternalServerError }
  /\ Len(calls) <= 1

\* ===================================================================
\* Vocabulary of the properties, stated over the request as it arrived
\* ===================================================================
\* the signature header is absent or is not the MAC of this request
SignatureBad ==
  \/ reqHeader.sig = <<>>
  \/ reqHeader.sig # <<SLACK_SIGNING_SECRET, reqHeader.ts, reqData>>

\* both headers present, timestamp recent, signature the MAC of the request
ValidlySigned ==
  /\ reqHeader.ts = "fresh"
  /\ reqHeader.sig = <<SLACK_SIGNING_SECRET, reqHeader.ts, reqData>>

\* every pair of the payload is valid form encoding
WellFormed == \A i \in 1..Len(reqData) : reqData[i].ok

HasTextField == \E i \in 1..Len(reqData) : reqData[i].key = "text"

\* the text argument the payload carries ("" when it carries none)
SentText ==
  IF HasTextField
    THEN reqData[CHOOSE i \in 1..Len(reqData) :
                   /\ reqData[i].key = "text"
                   /\ \A j \in 1..(i - 1) : reqData[j].key # "text"].val
    ELSE <<>>

\* word occurs in t in some letter case
Contains(t, word) ==
  \E i \in 1..Len(t) : \E j \in i..Len(t) :
    /\ j - i + 1 = Len(word)
    /\ \A k \in 1..Len(word) : t[i + k - 1] = word[k] \/ Fold(t[i + k - 1]) = word[k]

EndsInNewline(b) == Len(b) > 0 /\ b[Len(b)] = "\n"

\* the upstream answered the POST at all / answered it with a 2xx status
Answered == ~upstream.connErr /\ upstream.status # 0
UpstreamSuccess == Answered /\ upstream.status \in 200..299 /\ ~upstream.readErr
UpstreamFailure ==
  \/ upstream.connErr
  \/ upstream.readErr
  \/ upstream.status \notin 200..299

Finished == pc = "done"

DemoCall ==
  [method |-> "POST", address |-> demoAddress, authorization |-> <<"Bearer ", DEMO>>]
StagingCall ==
  [method |-> "POST", address |-> stagingAddress, authorization |-> <<"Bearer ", STAGING>>]

GuidanceText ==
  <<"P","l","e","a","s","e"," ","e","n","t","e","r"," ","e","i","t","h","e","r"," ",
    "*","d","e","m","o","*"," ","o","r"," ","*","s","t","a","g","i","n","g","*">>

\* ===================================================================
\* Properties
\* ===================================================================

\* C1: a request whose signature is incorrect or missing, whatever its body,
\* ends with status 401 and an empty body; the slash command is never parsed
\* and no outbound token call is made.
C1_UnauthorizedStopsEarly ==
  SignatureBad =>
    /\ ~parsed
    /\ calls = <<>>
    /\ pc \in { "verify", "done" }
    /\ Finished => (w.status = 401 /\ w.body = <<>>)

C1_Witness ==
  /\ Finished
  /\ reqHeader.ts = "fresh"
  /\ reqHeader.sig = <<"other-secret", "fresh", reqData>>
  /\ WellFormed /\ Contains(SentText, demo)
  /\ w.status = 401

\* C2: for a verified, parsed request whose environment matched, a non-success
\* HTTP status from the token API ends the request with status 500 and an
\* empty body, never with 200 and a token message made of the error body.
C2_UpstreamErrorStatusIs500 ==
  ( /\ Finished
    /\ ValidlySigned /\ WellFormed
    /\ Len(calls) = 1
    /\ Answered /\ upstream.status \notin 200..299 )
  => (w.status = 500 /\ w.body = <<>>)

\* C3: a validly signed request whose text contains "demo" in any letter case
\* (also when it contains "staging") makes its single outbound call to the
\* demo endpoint with the Demo bearer secret, and no other call.
C3_DemoWins ==
  (ValidlySigned /\ WellFormed /\ Contains(SentText, demo)) =>
    /\ \A i \in 1..Len(calls) : calls[i] = DemoCall
    /\ pc \in { "format", "done" } => calls = <<DemoCall>>
    /\ pc \in { "fetch", "format", "done" } =>
         (address = demoAddress /\ bearerToken = DEMO)

C3_Witness ==
  /\ Finished /\ ValidlySigned /\ WellFormed
  /\ Contains(SentText, demo) /\ Contains(SentText, staging)
  /\ SentText[1] = "s"
  /\ calls = <<DemoCall>>

\* C4: a validly signed request whose text contains "staging" in any letter
\* case and no "demo" in any letter case makes its single outbound call to the
\* staging endpoint with the Staging bearer secret.
C4_StagingWithoutDemo ==
  (ValidlySigned /\ WellFormed /\ Contains(SentText, staging) /\ ~Contains(SentText, demo)) =>
    /\ \A i \in 1..Len(calls) : calls[i] = StagingCall
    /\ pc \in { "format", "done" } => calls = <<StagingCall>>
    /\ pc \in { "fetch", "format", "done" } =>
         (address = stagingAddress /\ bearerToken = STAGING)

C4_Witness ==
  /\ Finished /\ ValidlySigned /\ WellFormed
  /\ SentText = <<"S","T","A","G","I","N","G"," ","p","l","e","a","s","e">>
  /\ calls = <<StagingCall>>

\* C5: a validly signed request whose text contains neither "demo" nor
\* "staging" in any letter case ends with status 200 and exactly the guidance
\* text as body, and makes no outbound token call.
C5_GuidanceWhenNoMatch ==
  (ValidlySigned /\ WellFormed /\ ~Contains(SentText, demo) /\ ~Contains(SentText, staging)) =>
    /\ calls = <<>>
    /\ pc \notin { "fetch", "format" }
    /\ Finished => (w.status = 200 /\ w.body = GuidanceText)

C5_Witness ==
  /\ Finished /\ ValidlySigned /\ WellFormed
  /\ SentText = <<"d","e"," ","p","l","e","a","s","e">>
  /\ w.status = 200 /\ w.body = GuidanceText

\* C6: when a validly signed request resolved to an environment and the token
\* fetch succeeded, the response is 200 with body "<Name> token: <token>",
\* <Name> being "Demo" or "Staging" as the endpoint called, <token> the
\* upstream body without its one trailing newline.
C6_TokenMessage ==
  (Finished /\ ValidlySigned /\ WellFormed /\ Len(calls) = 1 /\ UpstreamSuccess) =>
    LET name == IF calls[1].address = demoAddress
                  THEN <<"D","e","m","o">>
                  ELSE <<"S","t","a","g","i","n","g">>
        b    == upstream.body
        tok  == IF EndsInNewline(b) THEN SubSeq(b, 1, Len(b) - 1) ELSE b
    IN  /\ w.status = 200
        /\ w.body = name \o <<" ","t","o","k","e","n",":"," ">> \o tok

C6_Witness ==
  /\ Finished /\ ValidlySigned /\ UpstreamSuccess
  /\ SentText = <<" ","p","l","e","a","s","e","d","e","m","o">>
  /\ upstream.body = <<"a", "\n">>
  /\ w.status = 200
  /\ w.body = <<"D","e","m","o"," ","t","o","k","e","n",":"," ","a">>

\* C7: getToken returns the upstream body less exactly one trailing newline
\* when the body ends in a newline, and the body itself otherwise; a body
\* ending in two newlines keeps one.
C7_TrimsOneNewline ==
  (pc \in { "format", "done" } /\ ~err) =>
    LET b == upstream.body
    IN  /\ EndsInNewline(b) => (Len(token) = Len(b) - 1 /\ token \o <<"\n">> = b)
        /\ ~EndsInNewline(b) => token = b
        /\ (Len(b) >= 2 /\ b[Len(b)] = "\n" /\ b[Len(b) - 1] = "\n")
             => EndsInNewline(token)

C7_Witness ==
  /\ pc = "format" /\ ~err
  /\ upstream.body = <<"\n", "\n">>
  /\ token = <<"\n">>

\* C8 as stated: a verified request whose payload is malformed (not valid form
\* encoding, or lacking the text argument) ends with status 500 and an empty
\* body, with no outbound call and no guidance message.
C8_MalformedIs500 ==
  (Finished /\ ValidlySigned /\ (~WellFormed \/ ~HasTextField)) =>
    (w.status = 500 /\ w.body = <<>> /\ calls = <<>>)

\* C8 amended: a verified request whose payload is not valid form encoding
\* fails to parse and ends with status 500 and an empty body, with no outbound
\* call and no guidance message; a validly encoded payload without the text
\* argument parses, with the empty text.
C8_BadEncodingIs500 ==
  /\ (ValidlySigned /\ ~WellFormed) =>
       /\ calls = <<>>
       /\ pc \in { "verify", "parse", "done" }
       /\ Finished => (parsed /\ w.status = 500 /\ w.body = <<>>)
  /\ (ValidlySigned /\ WellFormed /\ ~HasTextField /\ parsed) =>
       (text = <<>> /\ w.status # 500)

C8_Witness ==
  /\ Finished /\ ValidlySigned /\ parsed
  /\ reqData = <<commandSeg, badSeg>>
  /\ w.status = 500

\* the five outcomes of a request
Unauthorized == w.status = 401 /\ w.body = <<>> /\ ~parsed /\ calls = <<>>
ParseError == w.status = 500 /\ w.body = <<>> /\ parsed /\ calls = <<>>
FetchError == w.status = 500 /\ w.body = <<>> /\ Len(calls) = 1 /\ UpstreamFailure
SuccessWithToken == w.status = 200 /\ w.body # <<>> /\ Len(calls) = 1 /\ ~UpstreamFailure
SuccessWithGuidance == w.status = 200 /\ w.body = GuidanceText /\ parsed /\ calls = <<>>

\* the stages run in order, a call is made only after verification, parsing
\* and a match, at most once, and a finished request has a written status
StagesInOrder ==
  /\ \E n \in 0..5 :
       trace = SubSeq(<<"verify", "parse", "classify", "fetch", "format">>, 1, n)
  /\ Len(calls) <= 1
  /\ calls # <<>> =>
       /\ ValidlySigned /\ WellFormed /\ parsed
       /\ Contains(text, demo) \/ Contains(text, staging)
       /\ SubSeq(trace, 1, 4) = <<"verify", "parse", "classify", "fetch">>
  /\ Finished => w.status \in { 200, 401, 500 }

\* C9: the stages run in the order verify, parse, classify, fetch, format with
\* exit at the first failure; the outbound call is made only after
\* verification, parsing and a match, and at most once; a failed fetch ends
\* the request with status 500; every request ends in exactly one of
\* unauthorized, parse-error, fetch-error, success-with-token,
\* success-with-guidance.
C9_LinearStagesOneOutcome ==
  /\ StagesInOrder
  /\ (Finished /\ Len(calls) = 1 /\ UpstreamFailure) => w.status = 500
  /\ Finished =>
       Cardinality({ o \in { "unauthorized", "parse-error", "fetch-error",
                             "token", "guidance" } :
                       \/ o = "unauthorized" /\ Unauthorized
                       \/ o = "parse-error" /\ ParseError
                       \/ o = "fetch-error" /\ FetchError
                       \/ o = "token" /\ SuccessWithToken
                       \/ o = "guidance" /\ SuccessWithGuidance }) = 1

\* C10: when verifyRequest succeeds, the request body it leaves is readable
\* from its start and holds exactly the bytes the signature was computed over,
\* and those are the bytes the slash-command parser then reads.
C10_BodyRestored ==
  /\ pc = "parse" =>
       /\ Remaining(reqBody) = hashed
       /\ hashed = reqData
       /\ reqHeader.sig = <<SLACK_SIGNING_SECRET, reqHeader.ts, hashed>>
  /\ parsed => (parsedFrom = hashed /\ parsedFrom = reqData)

C10_Witness ==
  /\ pc = "classify" /\ parsed
  /\ Len(reqData) = 2
  /\ parsedFrom = reqData
  /\ Contains(text, staging)
====
